---- MODULE Spec2Model ----
(***************************************************************************)
(* A model of the observability core of git-actions-workflow-storage:      *)
(*   monitoring/logger.py     WorkflowLogger (three sinks, timer, metric)  *)
(*   monitoring/dashboard.py  WorkflowMonitor (thresholds, health, errors) *)
(*   cloud/s3_manager.py      S3Manager.run_aws_command and its callers    *)
(*                                                                         *)
(* A message is a sequence of strings (the pieces of the f-string); the    *)
(* keyword context of a call is a function from keys to values, empty when *)
(* the call passes none.  Time is the wall clock in whole seconds.         *)
(***************************************************************************)
EXTENDS Integers, Sequences, FiniteSets, TLC

VARIABLES
    handlers,       \* logging.getLogger(name).handlers, in addHandler order
    sinks,          \* what each destination has received, in write order
    calls,          \* every LogRecord the logger was handed, in call order
    spans,          \* the open timer() generators, innermost last
    now,            \* time.time() / datetime.now()
    workflow_run,   \* WorkflowMonitor.workflow_run
    commit_sha,     \* WorkflowMonitor.commit_sha
    start_time,     \* WorkflowMonitor.start_time
    hc,             \* the health_check() frame blocked in subprocess.run
    ret,            \* how the most recent call ended
    ncalls,         \* number of calls made so far
    broken,         \* the sinks whose stream cannot be written at present
    fs,             \* the result directory and the summary file in it
    registry,       \* logging's loggers by name: the handler list of
                    \* each, every handler with the construction it is of
    open_handles,   \* the log files that are open in the process
    threads,        \* the frames of the threads that share the logger
    locks,          \* the owner of each handler's lock
    inflight        \* the lines each stream has received only in part

\* what the single-threaded operations of one monitor leave alone
envVars == <<broken, fs, registry, open_handles, threads, locks, inflight>>

vars == <<handlers, sinks, calls, spans, now, workflow_run, commit_sha,
          start_time, hc, ret, ncalls, broken, fs, registry, open_handles,
          threads, locks, inflight>>

----------------------------------------------------------------------------
(* Bounds of the model *)

\* steps (calls, and exits of with blocks) in one behaviour of the logger
\* specification
MaxCalls == 4
\* calls in one behaviour of the monitor and health specifications
MaxOps == 2

----------------------------------------------------------------------------
(* Levels of the logging library, as the source names them *)

DEBUG == 10
INFO == 20
WARNING == 30
ERROR == 40

Levels == {DEBUG, INFO, WARNING, ERROR}

LevelName(l) ==
    CASE l = DEBUG -> "DEBUG"
      [] l = INFO -> "INFO"
      [] l = WARNING -> "WARNING"
      [] l = ERROR -> "ERROR"

\* WorkflowMonitor.__init__ passes workflow_name as the logger's name
LoggerName == "ollama-workflow"

\* self.logger.setLevel(logging.DEBUG)
LoggerLevel == DEBUG

\* a call made without keyword arguments
NoKw == [k \in {} |-> 0]

\* Python's None
None == "<None>"

----------------------------------------------------------------------------
(* WorkflowLogger: sinks *)

SinkNames == {"console", "file", "json"}

ConsoleHandler == [stream |-> "console", level |-> INFO, fmt |-> "console"]

FileHandler == [stream |-> "file", level |-> DEBUG, fmt |-> "file"]

JsonHandler == [stream |-> "json", level |-> INFO, fmt |-> "json"]

\* __init__: handlers.clear(), then the three _setup_*_handler calls
InitHandlers == <<ConsoleHandler, FileHandler, JsonHandler>>

\* the LogRecord the library builds for logger.<level>(message); funcName is
\* the WorkflowLogger method that called the library
LogRecord(level, message, kwargs, t) ==
    [created |-> t, levelno |-> level, name |-> LoggerName,
     msg |-> [text |-> message, context |-> kwargs],
     funcName |-> CASE level = DEBUG -> "debug"
                    [] level = INFO -> "info"
                    [] level = WARNING -> "warning"
                    [] level = ERROR -> "error"]

\* the three formatters: which fields of the record each line carries
Format(fmt, rec) ==
    CASE fmt = "console" ->
            [asctime |-> rec.created, name |-> rec.name,
             levelname |-> LevelName(rec.levelno), message |-> rec.msg]
      [] fmt = "file" ->
            [asctime |-> rec.created, levelname |-> LevelName(rec.levelno),
             funcName |-> rec.funcName, message |-> rec.msg]
      [] fmt = "json" ->
            [timestamp |-> rec.created, level |-> LevelName(rec.levelno),
             logger |-> rec.name, message |-> rec.msg,
             function |-> rec.funcName]

\* a handler that compares with > where the library compares with >=
AdmitsStrict(h, rec) == rec.levelno > h.level

\* Handler.handle: the handler's own level filters the record
Admits(h, rec) == rec.levelno >= h.level

\* Handler.emit: a write that fails is caught inside the handler
\* (handleError), so the line is lost for that stream and nothing is raised
WriteOk(s) == s \notin broken

RECURSIVE LinesAbort(_, _, _)
\* a fan-out in which the first failing write ends the loop over the handlers
LinesAbort(hs, s, rec) ==
    IF hs = <<>> THEN <<>>
    ELSE IF Admits(Head(hs), rec) /\ ~WriteOk(Head(hs).stream) THEN <<>>
    ELSE (IF Head(hs).stream = s /\ Admits(Head(hs), rec)
            THEN <<Format(Head(hs).fmt, rec)>>
            ELSE <<>>) \o LinesAbort(Tail(hs), s, rec)

RECURSIVE Lines(_, _, _)
\* the lines the handlers hs write to stream s for rec, in handler order
Lines(hs, s, rec) ==
    IF hs = <<>> THEN <<>>
    ELSE (IF Head(hs).stream = s /\ Admits(Head(hs), rec) /\ WriteOk(s)
            THEN <<Format(Head(hs).fmt, rec)>>
            ELSE <<>>) \o Lines(Tail(hs), s, rec)

\* Logger.callHandlers: every handler of the logger sees the record
CallHandlers(hs, sk, rec) ==
    [s \in DOMAIN sk |-> sk[s] \o Lines(hs, s, rec)]

\* Logger.debug/info/warning/error: isEnabledFor(level), then handle
Handle(hs, sk, rec) ==
    IF rec.levelno >= LoggerLevel THEN CallHandlers(hs, sk, rec) ELSE sk

RECURSIVE HandleAll(_, _, _)
\* several records handed to the logger one after the other
HandleAll(hs, sk, recs) ==
    IF recs = <<>> THEN sk
    ELSE HandleAll(hs, Handle(hs, sk, Head(recs)), Tail(recs))

----------------------------------------------------------------------------
(* Inputs of the logger specification *)

Messages == {<<"m1">>}

Contexts == {NoKw, [step |-> "build"]}

\* a value json.dumps has no encoding for (an object, a set, a datetime)
NotSerializable == "<object>"

\* keyword contexts that hold such a value
BadContexts == {[payload |-> NotSerializable]}

\* json.dumps(kwargs) returns; it raises TypeError otherwise
Serializable(kwargs) == \A k \in DOMAIN kwargs : kwargs[k] # NotSerializable

TypeError == [kind |-> "TypeError", msg |-> "not JSON serializable"]

TimerNames == {"test_operation", "s3_upload"}

\* subclasses of Exception the timed work may raise
Exceptions ==
    {[kind |-> "ValueError", msg |-> "bad value"],
     [kind |-> "RuntimeError", msg |-> "boom"]}

\* BaseException subclasses that are not Exception: how Python delivers an
\* interrupt or a cancellation to the code inside the with block
Cancellations ==
    {[kind |-> "KeyboardInterrupt", msg |-> ""],
     [kind |-> "CancelledError", msg |-> ""]}

NoExc == [kind |-> "", msg |-> ""]

\* except Exception: matches Exception and its subclasses only
IsException(e) == e \in Exceptions

\* how the with block can be left
ExitKinds == {"normal", "early_return", "raise"}

\* seconds the timed work may take
Elapsed == {0, 1}

\* f"{duration:.2f}" of a whole number of seconds
Fmt2f(d) == <<ToString(d), ".00">>

----------------------------------------------------------------------------
(* State after WorkflowMonitor() has been constructed *)

NoFrame == [state |-> "idle"]

\* the summary file does not exist
NoFile == [t |-> "absent"]

\* the names WorkflowLogger is constructed with in one process
LoggerNames == {LoggerName, "test-workflow", "test"}

\* the two files a WorkflowLogger opens: <name>-<date>.log and .json
FilesOf(name, run) ==
    {[logger |-> name, run |-> run, ext |-> e] : e \in {"log", "json"}}

\* an __init__ that leaves the handlers it finds on the logger
ClearNothing(hs) == hs

\* self.logger.handlers.clear()
Clear(hs) == <<>>

\* _setup_console_handler, _setup_file_handler, _setup_json_handler: the
\* three handlers of construction run are added, in this order
Setup(hs, run) ==
    hs \o [i \in DOMAIN InitHandlers |->
              [stream |-> InitHandlers[i].stream,
               level |-> InitHandlers[i].level,
               fmt |-> InitHandlers[i].fmt, run |-> run]]

Threads == {"t1", "t2"}

\* a thread that is not inside a log call
IdleThread == [pc |-> "idle", done |-> 0, hist |-> <<>>, i |-> 0]

\* a handler lock nobody holds
Free == "free"

Init ==
    /\ handlers = InitHandlers
    /\ sinks = [s \in SinkNames |-> <<>>]
    /\ calls = <<>>
    /\ spans = <<>>
    /\ now = 0
    /\ workflow_run = None
    /\ commit_sha = None
    /\ start_time = 0
    /\ hc = NoFrame
    /\ ret = [op |-> "init"]
    /\ ncalls = 0
    /\ broken = {}
    /\ fs = [dir |-> FALSE, file |-> NoFile]
    /\ registry = [n \in LoggerNames |->
                       IF n = LoggerName THEN Setup(<<>>, 1) ELSE <<>>]
    /\ open_handles = FilesOf(LoggerName, 1)
    /\ threads = [t \in Threads |-> IdleThread]
    /\ locks = [s \in SinkNames |-> Free]
    /\ inflight = [s \in SinkNames |-> {}]

\* the logger is handed recs, in order
Emit(recs) ==
    /\ sinks' = HandleAll(handlers, sinks, recs)
    /\ calls' = calls \o recs

----------------------------------------------------------------------------
(* WorkflowLogger.debug / info / warning / error *)

LogCall(level, message, kwargs) ==
    /\ ncalls < MaxCalls
    /\ hc.state = "idle"
    /\ IF Serializable(kwargs)
         THEN /\ Emit(<<LogRecord(level, message, kwargs, now)>>)
              /\ ret' = [op |-> "log", status |-> "returned",
                         exc |-> NoExc, level |-> level,
                         from |-> Len(calls), failed |-> broken,
                         before |-> [s \in SinkNames |-> Len(sinks[s])]]
         ELSE /\ UNCHANGED <<sinks, calls>>
              /\ ret' = [op |-> "log", status |-> "raised",
                         exc |-> TypeError, level |-> level]
    /\ ncalls' = ncalls + 1
    /\ UNCHANGED <<handlers, spans, now, workflow_run, commit_sha,
                   start_time, hc>>
    /\ UNCHANGED envVars

----------------------------------------------------------------------------
(* WorkflowLogger.timer *)

StartRecord(op, t) == LogRecord(INFO, <<"Starting: ", op>>, NoKw, t)

CompletedRecord(op, d, t) ==
    LogRecord(INFO, <<"Completed: ", op, " (">> \o Fmt2f(d) \o <<"s)">>,
              NoKw, t)

FailedRecord(op, d, e, t) ==
    LogRecord(ERROR,
              <<"Failed: ", op, " (">> \o Fmt2f(d) \o <<"s) - ", e.msg>>,
              NoKw, t)

\* with logger.timer(op): the generator runs to its yield
TimerEnter(op) ==
    /\ ncalls < MaxCalls
    /\ hc.state = "idle"
    /\ Emit(<<StartRecord(op, now)>>)
    /\ spans' = Append(spans,
                       [name |-> op, start_time |-> now,
                        emitted |-> <<StartRecord(op, now)>>])
    /\ ret' = [op |-> "timer_enter", status |-> "returned"]
    /\ ncalls' = ncalls + 1
    /\ UNCHANGED <<handlers, now, workflow_run, commit_sha, start_time, hc>>
    /\ UNCHANGED envVars

\* a generator that logs nothing after a yield that returned normally
TimerEndRecordsNoSuccess(sp, how, e, t) ==
    IF how = "raise" /\ IsException(e)
      THEN <<FailedRecord(sp.name, t - sp.start_time, e, t)>>
      ELSE <<>>

\* what the generator logs when the with block is left after d more seconds:
\* resumed by next() on a normal exit or a return, by throw(e) on a raise
TimerEndRecords(sp, how, e, t) ==
    IF how \in {"normal", "early_return"}
      THEN <<CompletedRecord(sp.name, t - sp.start_time, t)>>
      ELSE IF IsException(e)
             THEN <<FailedRecord(sp.name, t - sp.start_time, e, t)>>
             ELSE <<>>

\* an except clause without its raise: the failure is swallowed
TimerOutcomeSwallow(how, e) ==
    IF how = "raise" /\ ~IsException(e)
      THEN [status |-> "raised", exc |-> e]
      ELSE [status |-> "returned", exc |-> NoExc]

\* what the with statement hands to its caller
TimerOutcome(how, e) ==
    IF how = "raise" THEN [status |-> "raised", exc |-> e]
                     ELSE [status |-> "returned", exc |-> NoExc]

\* the innermost with block is left
TimerExit(how, e, d) ==
    /\ ncalls < MaxCalls
    /\ spans # <<>>
    /\ hc.state = "idle"
    /\ (how = "raise") <=> (e # NoExc)
    /\ LET sp == spans[Len(spans)]
           t == now + d
           recs == TimerEndRecords(sp, how, e, t)
           out == TimerOutcome(how, e)
       IN /\ now' = t
          /\ Emit(recs)
          /\ spans' = SubSeq(spans, 1, Len(spans) - 1)
          /\ ret' = [op |-> "timer", name |-> sp.name, how |-> how,
                     work |-> e, status |-> out.status, exc |-> out.exc,
                     elapsed |-> t - sp.start_time,
                     emitted |-> sp.emitted \o recs]
    /\ ncalls' = ncalls + 1
    /\ UNCHANGED <<handlers, workflow_run, commit_sha, start_time, hc>>
    /\ UNCHANGED envVars

NextLogger ==
    \/ \E l \in Levels, m \in Messages, k \in Contexts : LogCall(l, m, k)
    \/ \E op \in TimerNames : TimerEnter(op)
    \/ \E how \in ExitKinds, e \in Exceptions \cup Cancellations \cup {NoExc},
          d \in Elapsed : TimerExit(how, e, d)

SpecLogger == Init /\ [][NextLogger]_vars

----------------------------------------------------------------------------
(* WorkflowLogger.metric *)

\* metric(): one info call whose context is metric_data; name is the pieces
\* of the metric's name, tags the extra keyword arguments
\* a metric record that leaves the tags out of its context
MetricRecordNoTags(name, value, unit, tags, t) ==
    LogRecord(INFO,
              <<"METRIC: ">> \o name \o <<"=", ToString(value), unit>>,
              [metric_name |-> name, value |-> value, unit |-> unit,
               tags |-> NoKw],
              t)

MetricRecord(name, value, unit, tags, t) ==
    LogRecord(INFO,
              <<"METRIC: ">> \o name \o <<"=", ToString(value), unit>>,
              [metric_name |-> name, value |-> value, unit |-> unit,
               tags |-> tags],
              t)

MetricNames == {<<"latency">>}

MetricValues == {0, 7}

MetricUnits == {"", "ms"}

\* **tags: the keyword arguments after unit, none or some
Tags == {NoKw, [env |-> "ci"]}

\* WorkflowLogger.metric: one info call; nothing is kept on the logger
MetricCall(name, value, unit, tags) ==
    /\ ncalls < MaxCalls
    /\ hc.state = "idle"
    /\ IF Serializable(tags)
         THEN /\ Emit(<<MetricRecord(name, value, unit, tags, now)>>)
              /\ ret' = [op |-> "metric", status |-> "returned",
                         exc |-> NoExc, name |-> name, value |-> value,
                         unit |-> unit, tags |-> tags,
                         from |-> Len(calls)]
         ELSE /\ UNCHANGED <<sinks, calls>>
              /\ ret' = [op |-> "metric", status |-> "raised",
                         exc |-> TypeError, name |-> name, value |-> value,
                         unit |-> unit, tags |-> tags,
                         from |-> Len(calls)]
    /\ ncalls' = ncalls + 1
    /\ UNCHANGED <<handlers, spans, now, workflow_run, commit_sha,
                   start_time, hc>>
    /\ UNCHANGED envVars

NextMetric ==
    \/ \E name \in MetricNames, value \in MetricValues,
          unit \in MetricUnits, tags \in Tags :
          MetricCall(name, value, unit, tags)
    \/ \E level \in {DEBUG, ERROR}, message \in Messages :
          LogCall(level, message, NoKw)

SpecMetric == Init /\ [][NextMetric]_vars

----------------------------------------------------------------------------
(* the streams behind the handlers: a disk that fills, a closed pipe *)

\* writes to the stream of sink s start to fail
SinkFails(s) ==
    /\ ncalls < MaxCalls
    /\ hc.state = "idle"
    /\ s \notin broken
    /\ broken' = broken \cup {s}
    /\ ncalls' = ncalls + 1
    /\ UNCHANGED <<handlers, sinks, calls, spans, now, workflow_run,
                   commit_sha, start_time, hc, ret, fs, registry,
                   open_handles, threads, locks, inflight>>

\* writes to the stream of sink s succeed again
SinkRepaired(s) ==
    /\ ncalls < MaxCalls
    /\ hc.state = "idle"
    /\ s \in broken
    /\ broken' = broken \ {s}
    /\ ncalls' = ncalls + 1
    /\ UNCHANGED <<handlers, sinks, calls, spans, now, workflow_run,
                   commit_sha, start_time, hc, ret, fs, registry,
                   open_handles, threads, locks, inflight>>

NextSinks ==
    \/ \E level \in Levels, message \in Messages, kwargs \in Contexts :
          LogCall(level, message, kwargs)
    \/ \E s \in SinkNames : SinkFails(s)
    \/ \E s \in SinkNames : SinkRepaired(s)

SpecSinks == Init /\ [][NextSinks]_vars

----------------------------------------------------------------------------
(* WorkflowMonitor.start_monitoring *)

Runs == {"999", "1000"}

Shas == {"abc123"}

\* a start_monitoring that also restarts the run's clock
StartMonitoringRestarts(run, sha) ==
    /\ ncalls < MaxOps
    /\ hc.state = "idle"
    /\ workflow_run' = run
    /\ commit_sha' = sha
    /\ start_time' = now
    /\ Emit(<<LogRecord(INFO, <<"Starting workflow monitoring">>,
                        [workflow_run |-> run, commit_sha |-> sha], now)>>)
    /\ ret' = [op |-> "start_monitoring", status |-> "returned"]
    /\ ncalls' = ncalls + 1
    /\ UNCHANGED <<handlers, spans, now, hc>>
    /\ UNCHANGED envVars

\* a start_monitoring that keeps the identifiers of the first call
StartMonitoringOnce(run, sha) ==
    /\ ncalls < MaxOps
    /\ hc.state = "idle"
    /\ workflow_run' = IF workflow_run = None THEN run ELSE workflow_run
    /\ commit_sha' = IF commit_sha = None THEN sha ELSE commit_sha
    /\ Emit(<<LogRecord(INFO, <<"Starting workflow monitoring">>,
                        [workflow_run |-> run, commit_sha |-> sha], now)>>)
    /\ ret' = [op |-> "start_monitoring", status |-> "returned"]
    /\ ncalls' = ncalls + 1
    /\ UNCHANGED <<handlers, spans, now, start_time, hc>>
    /\ UNCHANGED envVars

StartMonitoring(run, sha) ==
    /\ ncalls < MaxOps
    /\ hc.state = "idle"
    /\ workflow_run' = run
    /\ commit_sha' = sha
    /\ Emit(<<LogRecord(INFO, <<"Starting workflow monitoring">>,
                        [workflow_run |-> run, commit_sha |-> sha], now)>>)
    /\ ret' = [op |-> "start_monitoring", status |-> "returned"]
    /\ ncalls' = ncalls + 1
    /\ UNCHANGED <<handlers, spans, now, start_time, hc>>
    /\ UNCHANGED envVars

----------------------------------------------------------------------------
(* WorkflowMonitor.monitor_operation; durations in thousandths of a second *)

Ms(seconds) == seconds * 1000

DefaultThreshold == 120

\* the thresholds dictionary, in seconds
Thresholds ==
    [ollama_query |-> 60, model_download |-> 300, test_execution |-> 30,
     s3_upload |-> 60]

\* thresholds.get(operation_name, 120)
ThresholdFor(operation_name) ==
    IF operation_name \in DOMAIN Thresholds
      THEN Thresholds[operation_name]
      ELSE DefaultThreshold

\* a comparison that also flags a duration equal to the threshold
ExceedsOrEqual(duration, threshold) == duration >= Ms(threshold)

\* duration > threshold
Exceeds(duration, threshold) == duration > Ms(threshold)

\* round(duration, 2): to the nearest hundredth of a second (the inputs
\* below have no third decimal of 5, where Python rounds on the binary value)
Round2(duration) == ((duration + 5) \div 10) * 10

OperationNames ==
    {"ollama_query", "model_download", "test_execution", "s3_upload",
     "unknown_op"}

\* at and just above every threshold, and the two durations of the
\* specification's examples (50 s and 301 s)
Durations ==
    {Ms(30), Ms(30) + 4, Ms(50), Ms(60), Ms(60) + 4, Ms(120), Ms(120) + 4,
     Ms(300), Ms(301)}

MonitorRecords(operation_name, duration, success, t) ==
    <<MetricRecord(<<operation_name, "_duration">>, Round2(duration), "s",
                   NoKw, t),
      MetricRecord(<<operation_name, "_status">>,
                   IF success THEN 1 ELSE 0, "", NoKw, t)>>
    \o (IF Exceeds(duration, ThresholdFor(operation_name))
          THEN <<LogRecord(WARNING,
                           <<"Performance threshold exceeded: ",
                             operation_name>>,
                           [duration |-> duration,
                            threshold |-> ThresholdFor(operation_name)],
                           t)>>
          ELSE <<>>)

MonitorOperation(operation_name, duration, success) ==
    /\ ncalls < MaxOps
    /\ hc.state = "idle"
    /\ Emit(MonitorRecords(operation_name, duration, success, now))
    /\ ret' = [op |-> "monitor_operation", status |-> "returned",
               name |-> operation_name, duration |-> duration,
               success |-> success, from |-> Len(calls)]
    /\ ncalls' = ncalls + 1
    /\ UNCHANGED <<handlers, spans, now, workflow_run, commit_sha,
                   start_time, hc>>
    /\ UNCHANGED envVars

NextThreshold ==
    \/ \E run \in Runs, sha \in Shas : StartMonitoring(run, sha)
    \/ \E op \in OperationNames, d \in Durations, ok \in BOOLEAN :
          MonitorOperation(op, d, ok)

SpecThreshold == Init /\ [][NextThreshold]_vars

----------------------------------------------------------------------------
(* WorkflowMonitor.track_error *)

CriticalErrors == {"ollama_service_down", "model_download_failed"}

ErrorTypes == CriticalErrors \cup {"minor_glitch"}

\* error_message is a string (kind "str") or an exception object
ErrorMessages ==
    {[kind |-> "str", msg |-> "x"],
     [kind |-> "ConnectionError", msg |-> "connection refused"]}

\* str(error_message), and its rendering inside an f-string
Str(error_message) == error_message.msg

\* the context argument: omitted (None) or a dictionary
ContextArgs ==
    {[given |-> FALSE, value |-> NoKw],
     [given |-> TRUE, value |-> NoKw],
     [given |-> TRUE, value |-> [job |-> "test"]]}

\* context or {}
OrEmpty(context) ==
    IF context.given /\ context.value # NoKw THEN context.value ELSE NoKw

\* an allow-list that lacks model_download_failed
IsCriticalShortList(error_type) == error_type \in {"ollama_service_down"}

\* error_type in critical_errors
IsCritical(error_type) == error_type \in CriticalErrors

TrackRecords(error_type, error_message, context, run, t) ==
    <<LogRecord(ERROR, <<"Error: ", error_type>>,
                [error_type |-> error_type,
                 error_message |-> Str(error_message),
                 workflow_run |-> run,
                 context |-> OrEmpty(context)],
                t)>>
    \o (IF IsCritical(error_type)
          THEN <<LogRecord(ERROR,
                           <<"CRITICAL: ", error_type, " - ",
                             Str(error_message)>>,
                           NoKw, t)>>
          ELSE <<>>)

TrackError(error_type, error_message, context) ==
    /\ ncalls < MaxOps
    /\ hc.state = "idle"
    /\ IF Serializable(OrEmpty(context))
         THEN /\ Emit(TrackRecords(error_type, error_message, context,
                                   workflow_run, now))
              /\ ret' = [op |-> "track_error", status |-> "returned",
                         exc |-> NoExc, error_type |-> error_type,
                         error_message |-> error_message,
                         context |-> context, from |-> Len(calls)]
         ELSE /\ UNCHANGED <<sinks, calls>>
              /\ ret' = [op |-> "track_error", status |-> "raised",
                         exc |-> TypeError, error_type |-> error_type,
                         error_message |-> error_message,
                         context |-> context, from |-> Len(calls)]
    /\ ncalls' = ncalls + 1
    /\ UNCHANGED <<handlers, spans, now, workflow_run, commit_sha,
                   start_time, hc>>
    /\ UNCHANGED envVars

NextErrors ==
    \/ \E run \in Runs, sha \in Shas : StartMonitoring(run, sha)
    \/ \E k \in ErrorTypes, m \in ErrorMessages, c \in ContextArgs :
          TrackError(k, m, c)

SpecErrors == Init /\ [][NextErrors]_vars

\* the calls of the core with contexts of any kind, serializable or not
NextFaults ==
    \/ \E level \in {DEBUG, ERROR}, message \in Messages,
          kwargs \in Contexts \cup BadContexts :
          LogCall(level, message, kwargs)
    \/ \E name \in MetricNames, value \in MetricValues,
          tags \in Tags \cup BadContexts :
          MetricCall(name, value, "", tags)
    \/ \E error_type \in ErrorTypes, error_message \in ErrorMessages,
          context \in ContextArgs \cup {[given |-> TRUE, value |-> c] :
                                         c \in BadContexts} :
          TrackError(error_type, error_message, context)

SpecFaults == Init /\ [][NextFaults]_vars

----------------------------------------------------------------------------
(* S3Manager.run_aws_command and check_aws_configured *)

\* text as the pieces it is made of; these pieces are whitespace
Whitespace == {" ", "\n"}

RECURSIVE LStrip(_)
LStrip(text) ==
    IF text # <<>> /\ Head(text) \in Whitespace
      THEN LStrip(Tail(text))
      ELSE text

RECURSIVE RStrip(_)
RStrip(text) ==
    IF text # <<>> /\ text[Len(text)] \in Whitespace
      THEN RStrip(SubSeq(text, 1, Len(text) - 1))
      ELSE text

\* str.strip(): leading and trailing whitespace removed, the rest kept
Strip(text) == RStrip(LStrip(text))

\* how subprocess.run(['aws', ...], check=True) can end; no timeout is
\* passed, so it does not end while the command keeps running
AwsOutcomes ==
    {[kind |-> "exit", code |-> 0,
      stdout |-> <<"arn:aws:iam::1:user/ci", "\n">>, stderr |-> <<>>,
      text |-> ""],
     [kind |-> "exit", code |-> 255, stdout |-> <<>>,
      stderr |-> <<"\n", "Unable to locate credentials", "\n">>,
      text |-> ""],
     [kind |-> "FileNotFoundError", code |-> 0, stdout |-> <<>>,
      stderr |-> <<>>, text |-> "No such file: aws"],
     [kind |-> "PermissionError", code |-> 0, stdout |-> <<>>,
      stderr |-> <<>>, text |-> "Permission denied: aws"]}

\* a runner that does not check the exit code (check=False)
RunAwsCommandUnchecked(o) ==
    CASE o.kind = "exit" ->
            [status |-> "returned", success |-> TRUE,
             output |-> Strip(o.stdout), exc |-> NoExc]
      [] o.kind = "FileNotFoundError" ->
            [status |-> "returned", success |-> FALSE,
             output |-> <<"AWS CLI not installed">>, exc |-> NoExc]
      [] OTHER ->
            [status |-> "raised", success |-> FALSE, output |-> <<>>,
             exc |-> [kind |-> o.kind, msg |-> o.text]]

\* run_aws_command's try/except: (success, output), or the exception that
\* neither except clause matches
RunAwsCommand(o) ==
    CASE o.kind = "exit" /\ o.code = 0 ->
            [status |-> "returned", success |-> TRUE,
             output |-> Strip(o.stdout), exc |-> NoExc]
      [] o.kind = "exit" /\ o.code # 0 ->
            [status |-> "returned", success |-> FALSE,
             output |-> Strip(o.stderr), exc |-> NoExc]
      [] o.kind = "FileNotFoundError" ->
            [status |-> "returned", success |-> FALSE,
             output |-> <<"AWS CLI not installed">>, exc |-> NoExc]
      [] OTHER ->
            [status |-> "raised", success |-> FALSE, output |-> <<>>,
             exc |-> [kind |-> o.kind, msg |-> o.text]]

\* check_aws_configured drops the output and returns the flag
CheckAwsConfigured(o) ==
    [status |-> RunAwsCommand(o).status, value |-> RunAwsCommand(o).success,
     exc |-> RunAwsCommand(o).exc]

\* the aws commands the manager runs
Commands == {<<"sts", "get-caller-identity">>, <<"s3", "ls">>}

ExitCodes == {0, 1, 255}

\* what the command can leave on stdout and on stderr
Texts ==
    {<<>>, <<"\n">>, <<"line", "\n">>, <<" ", "a", " ", "b", "\n", "\n">>}

\* every way subprocess.run(['aws'] + command, check=True) can end
ProcessOutcomes ==
    {[kind |-> "exit", code |-> c, stdout |-> out, stderr |-> err,
      text |-> ""] : c \in ExitCodes, out \in Texts, err \in Texts}
    \cup {o \in AwsOutcomes : o.kind # "exit"}

\* a call of run_aws_command(command) whose process ends with outcome o
RunAws(command, o) ==
    /\ ncalls < MaxCalls
    /\ hc.state = "idle"
    /\ ret' = [op |-> "run_aws_command", command |-> command,
               outcome |-> o, result |-> RunAwsCommand(o)]
    /\ ncalls' = ncalls + 1
    /\ UNCHANGED <<handlers, sinks, calls, spans, now, workflow_run,
                   commit_sha, start_time, hc>>
    /\ UNCHANGED envVars

\* a call of check_aws_configured()
CheckAws(o) ==
    /\ ncalls < MaxCalls
    /\ hc.state = "idle"
    /\ ret' = [op |-> "check_aws_configured",
               command |-> <<"sts", "get-caller-identity">>,
               outcome |-> o, result |-> CheckAwsConfigured(o)]
    /\ ncalls' = ncalls + 1
    /\ UNCHANGED <<handlers, sinks, calls, spans, now, workflow_run,
                   commit_sha, start_time, hc>>
    /\ UNCHANGED envVars

NextAws ==
    \/ \E command \in Commands, o \in ProcessOutcomes : RunAws(command, o)
    \/ \E o \in ProcessOutcomes : CheckAws(o)

SpecAws == Init /\ [][NextAws]_vars

----------------------------------------------------------------------------
(* WorkflowMonitor.health_check *)

\* what shutil.disk_usage('/') can answer: (total, used, free) in blocks, or
\* an OSError
DiskResults ==
    {[ok |-> TRUE, total |-> 10000, free |-> 500, err |-> ""],
     [ok |-> TRUE, total |-> 10000, free |-> 1000, err |-> ""],
     [ok |-> TRUE, total |-> 10000, free |-> 1004, err |-> ""],
     [ok |-> TRUE, total |-> 10000, free |-> 1100, err |-> ""],
     [ok |-> FALSE, total |-> 0, free |-> 0, err |-> "Input/output error"]}

\* a test that also accepts exactly ten percent
DiskStatusAtLeast(free, total) ==
    IF free * 100 >= 10 * total THEN "healthy" ELSE "warning"

\* 'healthy' if (free / total) * 100 > 10 else 'warning', in exact
\* arithmetic (the source computes the percentage in floating point)
DiskStatus(free, total) ==
    IF free * 100 > 10 * total THEN "healthy" ELSE "warning"

\* round(free_percent, 1), in tenths of a percent
FreePercentTenths(free, total) == (free * 2000 + total) \div (2 * total)

DiskCheck(disk) ==
    [status |-> DiskStatus(disk.free, disk.total),
     free_percent |-> FreePercentTenths(disk.free, disk.total)]

LogsCheck(exists) ==
    [status |-> IF exists THEN "healthy" ELSE "warning", exists |-> exists]

AwsCheck(s3_ok) ==
    [status |-> IF s3_ok THEN "healthy" ELSE "degraded", configured |-> s3_ok]

\* the health dictionary once all three checks are in it
Snapshot(t, run, disk, exists, s3_ok) ==
    [timestamp |-> t, workflow_run |-> run,
     checks |-> [disk_space |-> DiskCheck(disk),
                 logs_directory |-> LogsCheck(exists),
                 aws_configured |-> AwsCheck(s3_ok)]]

\* health_check up to the call of subprocess.run: the disk query, which may
\* raise, and the logs directory test
HealthCheckBegin(disk, exists) ==
    /\ ncalls < MaxOps
    /\ hc.state = "idle"
    /\ IF disk.ok
         THEN /\ hc' = [state |-> "waiting", timestamp |-> now,
                        disk |-> disk, exists |-> exists]
              /\ UNCHANGED ret
         ELSE /\ hc' = NoFrame
              /\ ret' = [op |-> "health_check", status |-> "raised",
                         exc |-> [kind |-> "OSError", msg |-> disk.err],
                         disk |-> disk, aws |-> "not run"]
    /\ ncalls' = ncalls + 1
    /\ UNCHANGED <<handlers, sinks, calls, spans, now, workflow_run,
                   commit_sha, start_time>>
    /\ UNCHANGED envVars

\* the aws command ends with outcome o; health_check runs to its end
HealthCheckEnd(o) ==
    /\ hc.state = "waiting"
    /\ LET s3 == CheckAwsConfigured(o)
           health == Snapshot(hc.timestamp, workflow_run, hc.disk, hc.exists,
                              s3.value)
       IN IF s3.status = "returned"
            THEN /\ Emit(<<LogRecord(INFO, <<"Health check completed">>,
                                     health, now)>>)
                 /\ ret' = [op |-> "health_check", status |-> "returned",
                            value |-> health, disk |-> hc.disk,
                            exists |-> hc.exists, aws |-> o.kind,
                            code |-> o.code, from |-> Len(calls)]
            ELSE /\ UNCHANGED <<sinks, calls>>
                 /\ ret' = [op |-> "health_check", status |-> "raised",
                            exc |-> s3.exc, disk |-> hc.disk,
                            aws |-> o.kind]
    /\ hc' = NoFrame
    /\ UNCHANGED <<handlers, spans, now, workflow_run, commit_sha,
                   start_time, ncalls>>
    /\ UNCHANGED envVars

\* the steps the program takes by itself
ProgramHealth ==
    \/ \E run \in Runs, sha \in Shas : StartMonitoring(run, sha)
    \/ \E disk \in DiskResults, exists \in BOOLEAN :
          HealthCheckBegin(disk, exists)

\* the step that needs the external command to end
AwsEnds == \E o \in AwsOutcomes : HealthCheckEnd(o)

NextHealth == ProgramHealth \/ AwsEnds

SpecHealth == Init /\ [][NextHealth]_vars

\* the interpreter keeps running the program; nothing makes the external
\* command end
FairSpecHealth == SpecHealth /\ WF_vars(ProgramHealth)

----------------------------------------------------------------------------
(* WorkflowMonitor.generate_summary *)

\* datetime.isoformat(): the text of a clock reading
IsoFormat(t) == [iso |-> t]

\* (end_time - start_time).total_seconds(), in thousandths of a second
TotalSeconds(end_time, start) == Ms(end_time - start)

\* the text json.dump writes, as its tree of JSON values
JsonNull == [t |-> "null"]

JsonString(x) == [t |-> "string", v |-> x]

JsonNumber(x) == [t |-> "number", v |-> x]

JsonBool(x) == [t |-> IF x THEN "true" ELSE "false"]

JsonObject(members) == [t |-> "object", members |-> members]

\* an encoder that writes None the way str() does
JsonOptionalAsStr(x) == IF x = None THEN JsonString("None") ELSE JsonString(x)

\* None is written as null, a string as a string
JsonOptional(x) == IF x = None THEN JsonNull ELSE JsonString(x)

\* json.dump of the health dictionary
DumpHealth(h) ==
    JsonObject(
      [timestamp |-> JsonString(h.timestamp),
       workflow_run |-> JsonOptional(h.workflow_run),
       checks |-> JsonObject(
         [disk_space |-> JsonObject(
            [status |-> JsonString(h.checks.disk_space.status),
             free_percent |->
                 JsonNumber(h.checks.disk_space.free_percent)]),
          logs_directory |-> JsonObject(
            [status |-> JsonString(h.checks.logs_directory.status),
             exists |-> JsonBool(h.checks.logs_directory.exists)]),
          aws_configured |-> JsonObject(
            [status |-> JsonString(h.checks.aws_configured.status),
             configured |->
                 JsonBool(h.checks.aws_configured.configured)])])])

\* json.dump(summary, f, indent=2)
Dump(summary) ==
    JsonObject(
      [workflow_name |-> JsonString(summary.workflow_name),
       workflow_run |-> JsonOptional(summary.workflow_run),
       commit_sha |-> JsonOptional(summary.commit_sha),
       start_time |-> JsonString(summary.start_time),
       end_time |-> JsonString(summary.end_time),
       duration_seconds |-> JsonNumber(summary.duration_seconds),
       health |-> DumpHealth(summary.health)])

RECURSIVE Load(_)
\* json.load: the Python value of a JSON text
Load(j) ==
    CASE j.t = "null" -> None
      [] j.t = "true" -> TRUE
      [] j.t = "false" -> FALSE
      [] j.t = "string" -> j.v
      [] j.t = "number" -> j.v
      [] j.t = "object" -> [k \in DOMAIN j.members |-> Load(j.members[k])]

\* a file that open(..., 'w') truncated and json.dump did not finish
PartialFile == [t |-> "partial"]

\* the summary dictionary
Summary(end_time, health) ==
    [workflow_name |-> LoggerName,
     workflow_run |-> workflow_run,
     commit_sha |-> commit_sha,
     start_time |-> IsoFormat(start_time),
     end_time |-> IsoFormat(end_time),
     duration_seconds |-> TotalSeconds(end_time, start_time),
     health |-> health]

\* str(summary_file)
SummaryFile == "test-results/monitoring_summary.json"

\* what the result directory answers to mkdir and open/write
Destinations == {"ok", "mkdir fails", "write fails"}

\* the disk answers generate_summary is exercised with
SummaryDisks ==
    {d \in DiskResults : ~d.ok \/ d.free = 1100}

\* the command outcomes generate_summary is exercised with
SummaryAwsOutcomes ==
    {o \in AwsOutcomes : o.kind \in {"exit", "PermissionError"}}

\* time passes (d > 0), or the wall clock is set back (d < 0)
ClockSteps == {-1, 1}

ClockMoves(d) ==
    /\ ncalls < MaxCalls
    /\ hc.state = "idle"
    /\ now' = now + d
    /\ ncalls' = ncalls + 1
    /\ UNCHANGED <<handlers, sinks, calls, spans, workflow_run, commit_sha,
                   start_time, hc, ret>>
    /\ UNCHANGED envVars

\* generate_summary up to the call of subprocess.run inside health_check:
\* end_time and the duration are taken, then the disk query, which may raise
SummaryBegin(disk, exists) ==
    /\ ncalls < MaxCalls
    /\ hc.state = "idle"
    /\ IF disk.ok
         THEN /\ hc' = [state |-> "summary", timestamp |-> now,
                        end_time |-> now, disk |-> disk, exists |-> exists]
              /\ UNCHANGED ret
         ELSE /\ hc' = NoFrame
              /\ ret' = [op |-> "generate_summary", status |-> "raised",
                         exc |-> [kind |-> "OSError", msg |-> disk.err],
                         from |-> Len(calls), file_before |-> fs.file,
                         dir_before |-> fs.dir]
    /\ ncalls' = ncalls + 1
    /\ UNCHANGED <<handlers, sinks, calls, spans, now, workflow_run,
                   commit_sha, start_time>>
    /\ UNCHANGED envVars

\* the aws command ends with outcome o: health_check runs to its end, then
\* mkdir, the write of the file, the info record and the return
SummaryEnd(o, dest) ==
    /\ hc.state = "summary"
    /\ LET s3 == CheckAwsConfigured(o)
           health == Snapshot(hc.timestamp, workflow_run, hc.disk, hc.exists,
                              s3.value)
           summary == Summary(hc.end_time, health)
           checked == LogRecord(INFO, <<"Health check completed">>, health,
                                now)
           written == LogRecord(INFO, <<"Summary generated">>,
                                [file |-> SummaryFile], now)
           base == [op |-> "generate_summary", from |-> Len(calls),
                    file_before |-> fs.file, dir_before |-> fs.dir]
       IN CASE s3.status # "returned" ->
                 /\ UNCHANGED <<sinks, calls, fs>>
                 /\ ret' = base @@ [status |-> "raised", exc |-> s3.exc]
            [] s3.status = "returned" /\ dest = "mkdir fails" ->
                 /\ Emit(<<checked>>)
                 /\ UNCHANGED fs
                 /\ ret' = base @@
                           [status |-> "raised",
                            exc |-> [kind |-> "PermissionError",
                                     msg |-> "test-results"]]
            [] s3.status = "returned" /\ dest = "write fails" ->
                 /\ Emit(<<checked>>)
                 /\ fs' = [dir |-> TRUE, file |-> PartialFile]
                 /\ ret' = base @@
                           [status |-> "raised",
                            exc |-> [kind |-> "OSError",
                                     msg |-> "No space left on device"]]
            [] s3.status = "returned" /\ dest = "ok" ->
                 /\ Emit(<<checked, written>>)
                 /\ fs' = [dir |-> TRUE, file |-> Dump(summary)]
                 /\ ret' = base @@
                           [status |-> "returned", value |-> summary,
                            exc |-> NoExc]
    /\ hc' = NoFrame
    /\ UNCHANGED <<handlers, spans, now, workflow_run, commit_sha,
                   start_time, ncalls, broken, registry, open_handles,
                   threads, locks, inflight>>

NextSummary ==
    \/ \E run \in Runs, sha \in Shas : StartMonitoring(run, sha)
    \/ \E d \in ClockSteps : ClockMoves(d)
    \/ \E disk \in SummaryDisks, exists \in BOOLEAN :
          SummaryBegin(disk, exists)
    \/ \E o \in SummaryAwsOutcomes, dest \in Destinations :
          SummaryEnd(o, dest)

SpecSummary == Init /\ [][NextSummary]_vars

----------------------------------------------------------------------------
(* timer spans while the wall clock is adjusted *)

\* a with block that returns, and one whose work raises
NextSpanClock ==
    \/ \E op \in TimerNames : TimerEnter(op)
    \/ \E d \in ClockSteps : ClockMoves(d)
    \/ \E d \in Elapsed : TimerExit("normal", NoExc, d)
    \/ \E e \in Exceptions, d \in Elapsed : TimerExit("raise", e, d)

SpecSpanClock == Init /\ [][NextSpanClock]_vars

----------------------------------------------------------------------------
(* the run and commit identifiers across the monitor's operations *)

\* commits of two runs of the workflow
IdentityShas == Shas \cup {"def456"}

\* a disk with room, and a command that succeeds
GoodDisks == {d \in DiskResults : d.ok /\ d.free = 1100}

GoodAwsOutcomes == {o \in AwsOutcomes : o.kind = "exit" /\ o.code = 0}

NextIdentity ==
    \/ \E run \in Runs, sha \in IdentityShas : StartMonitoring(run, sha)
    \/ \E disk \in GoodDisks : HealthCheckBegin(disk, TRUE)
    \/ \E o \in GoodAwsOutcomes : HealthCheckEnd(o)
    \/ \E error_type \in ErrorTypes :
          TrackError(error_type, [kind |-> "str", msg |-> "x"],
                     [given |-> FALSE, value |-> NoKw])
    \/ \E disk \in GoodDisks : SummaryBegin(disk, TRUE)
    \/ \E o \in GoodAwsOutcomes : SummaryEnd(o, "ok")

SpecIdentity == Init /\ [][NextIdentity]_vars

----------------------------------------------------------------------------
(* WorkflowLogger.__init__ run again in the same process *)

\* the handles whose handler is still in its logger's handler list; the
\* loggers themselves stay in logging's registry for the life of the process
Held ==
    {h \in open_handles :
        \E i \in DOMAIN registry[h.logger] :
            registry[h.logger][i].run = h.run}

\* WorkflowLogger(name): logging.getLogger(name) answers the logger
\* registered under that name, handlers.clear() drops its handlers without
\* closing them, and two files are opened for the new handlers
Construct(name) ==
    /\ ncalls < MaxCalls
    /\ hc.state = "idle"
    /\ registry' = [registry EXCEPT ![name] = Setup(Clear(@), ncalls + 2)]
    /\ open_handles' = open_handles \cup FilesOf(name, ncalls + 2)
    /\ handlers' = IF name = LoggerName THEN InitHandlers ELSE handlers
    /\ ret' = [op |-> "construct", status |-> "returned", name |-> name]
    /\ ncalls' = ncalls + 1
    /\ UNCHANGED <<sinks, calls, spans, now, workflow_run, commit_sha,
                   start_time, hc, broken, fs, threads, locks,
                   inflight>>

\* the interpreter reclaims a handler nothing refers to any more, which
\* closes its file
Collect(h) ==
    /\ h \in open_handles \ Held
    /\ open_handles' = open_handles \ {h}
    /\ UNCHANGED <<handlers, sinks, calls, spans, now, workflow_run,
                   commit_sha, start_time, hc, ret, ncalls, broken, fs,
                   registry, threads, locks, inflight>>

NextHandles ==
    \/ \E name \in LoggerNames : Construct(name)
    \/ \E h \in open_handles : Collect(h)

SpecHandles == Init /\ [][NextHandles]_vars

----------------------------------------------------------------------------
(* several threads calling the log methods of one WorkflowLogger *)

\* the levels the threads log at: debug reaches the file only, error all
\* three sinks
ThreadLevels == {DEBUG, ERROR}

\* the record a thread is handing to the handlers
Current(t) == threads[t].hist[Len(threads[t].hist)]

RECURSIVE NextAdmitting(_, _)
\* Logger.callHandlers: the next handler from position i on whose level
\* admits the record, or one past the last handler
NextAdmitting(i, rec) ==
    IF i > Len(handlers) THEN i
    ELSE IF Admits(handlers[i], rec) THEN i
    ELSE NextAdmitting(i + 1, rec)

\* a lock that lets a second thread in
CanAcquireAlways(s, t) == TRUE

\* Handler.acquire: the handler's lock is taken when nobody holds it
CanAcquire(s, t) == locks[s] = Free

\* thread t calls a log method: the record is made and the loop over the
\* handlers starts
ThreadCall(t, level) ==
    /\ ncalls < MaxCalls
    /\ threads[t].pc = "idle"
    /\ LET rec == LogRecord(level, <<t, ToString(threads[t].done + 1)>>,
                            NoKw, now)
       IN /\ threads' = [threads EXCEPT
                           ![t] = [pc |-> "handlers",
                                   done |-> threads[t].done + 1,
                                   hist |-> Append(threads[t].hist, rec),
                                   i |-> NextAdmitting(1, rec)]]
          /\ calls' = Append(calls, rec)
    /\ ncalls' = ncalls + 1
    /\ UNCHANGED <<handlers, sinks, spans, now, workflow_run, commit_sha,
                   start_time, hc, ret, broken, fs, registry, open_handles,
                   locks, inflight>>

\* Handler.handle: thread t takes the lock of the handler it has reached and
\* starts to write the line
Acquire(t) ==
    /\ threads[t].pc = "handlers"
    /\ CanAcquire(handlers[threads[t].i].stream, t)
    /\ locks' = [locks EXCEPT ![handlers[threads[t].i].stream] = t]
    /\ inflight' = [inflight EXCEPT ![handlers[threads[t].i].stream] =
                                        @ \cup {t}]
    /\ threads' = [threads EXCEPT ![t].pc = "writing"]
    /\ UNCHANGED <<handlers, sinks, calls, spans, now, workflow_run,
                   commit_sha, start_time, hc, ret, ncalls, broken, fs,
                   registry, open_handles>>

\* the write ends, the lock is released and the thread goes on to the next
\* admitting handler, or returns from the log call
WriteEnd(t) ==
    /\ threads[t].pc = "writing"
    /\ LET h == handlers[threads[t].i]
           j == NextAdmitting(threads[t].i + 1, Current(t))
       IN /\ sinks' = [sinks EXCEPT ![h.stream] =
                           IF WriteOk(h.stream)
                             THEN Append(@, Format(h.fmt, Current(t)))
                             ELSE @]
          /\ inflight' = [inflight EXCEPT ![h.stream] = @ \ {t}]
          /\ locks' = [locks EXCEPT ![h.stream] = Free]
          /\ threads' = [threads EXCEPT
                           ![t].i = j,
                           ![t].pc = IF j > Len(handlers) THEN "idle"
                                     ELSE "handlers"]
          /\ ret' = IF j > Len(handlers)
                      THEN [op |-> "thread_log", status |-> "returned",
                            thread |-> t]
                      ELSE ret
    /\ UNCHANGED <<handlers, calls, spans, now, workflow_run, commit_sha,
                   start_time, hc, ncalls, broken, fs, registry,
                   open_handles>>

NextThreads ==
    \/ \E t \in Threads, level \in ThreadLevels : ThreadCall(t, level)
    \/ \E t \in Threads : Acquire(t)
    \/ \E t \in Threads : WriteEnd(t)

SpecThreads == Init /\ [][NextThreads]_vars

----------------------------------------------------------------------------
(* the monitor's operations while time passes *)

NextFrame ==
    \/ \E d \in ClockSteps : ClockMoves(d)
    \/ \E run \in Runs, sha \in Shas : StartMonitoring(run, sha)
    \/ \E ok \in BOOLEAN : MonitorOperation("s3_upload", Ms(50), ok)
    \/ \E disk \in GoodDisks : HealthCheckBegin(disk, TRUE)
    \/ \E o \in GoodAwsOutcomes : HealthCheckEnd(o)
    \/ \E error_type \in ErrorTypes :
          TrackError(error_type, [kind |-> "str", msg |-> "x"],
                     [given |-> FALSE, value |-> NoKw])
    \/ \E disk \in GoodDisks : SummaryBegin(disk, TRUE)
    \/ \E o \in GoodAwsOutcomes : SummaryEnd(o, "ok")

SpecFrame == Init /\ [][NextFrame]_vars

----------------------------------------------------------------------------
(* instances of WorkflowLogger that share a logger by name *)

\* the constructions made under a name; each is an instance that holds the
\* logger of that name in self.logger
InstancesOf(name) == {h.run : h \in {g \in open_handles : g.logger = name}}

\* the instance made by construction inst under name logs at level: the
\* record goes to the handlers its logger holds now
InstanceLog(name, inst, level) ==
    /\ ncalls < MaxCalls
    /\ hc.state = "idle"
    /\ inst \in InstancesOf(name)
    /\ LET rec == LogRecord(level, <<"m1">>, NoKw, now)
       IN ret' = [op |-> "instance_log", status |-> "returned",
                  name |-> name, instance |-> inst, level |-> level,
                  delivered |-> SelectSeq(registry[name],
                                          LAMBDA h : Admits(h, rec))]
    /\ ncalls' = ncalls + 1
    /\ UNCHANGED <<handlers, sinks, calls, spans, now, workflow_run,
                   commit_sha, start_time, hc>>
    /\ UNCHANGED envVars

NextSinkSet ==
    \/ \E name \in LoggerNames : Construct(name)
    \/ \E name \in LoggerNames, inst \in 1..(MaxCalls + 1),
          level \in {DEBUG, ERROR} : InstanceLog(name, inst, level)

SpecSinkSet == Init /\ [][NextSinkSet]_vars

----------------------------------------------------------------------------
(* The whole program: any of the operations of one thread, in any order. *)
(* The claims are checked under the specifications of the operations they  *)
(* are about, which are the behaviours of Spec that make only those calls; *)
(* the calls of several threads are in SpecThreads.                        *)

Next ==
    \/ NextLogger
    \/ NextThreshold
    \/ NextErrors
    \/ NextHealth
    \/ NextMetric
    \/ NextSinks
    \/ NextFaults
    \/ NextAws
    \/ NextSummary
    \/ NextSpanClock
    \/ NextFrame
    \/ NextHandles
    \/ NextSinkSet

Spec == Init /\ [][Next]_vars

----------------------------------------------------------------------------
(* Claims about WorkflowLogger *)

\* the minimum level of each sink, as the claim states them
SinkMinimum == [console |-> INFO, file |-> DEBUG, json |-> INFO]

\* the records of the call history that sink s must have received
Routed(s) == SelectSeq(calls, LAMBDA r : r.levelno >= SinkMinimum[s])

\* C1: each of the three sinks holds exactly the records whose level is at
\* least its minimum (console INFO, file DEBUG, json INFO), each once, in the
\* order the calls were made.
C1_SinkFilter ==
    \A s \in SinkNames :
        /\ Len(sinks[s]) = Len(Routed(s))
        /\ \A i \in 1..Len(sinks[s]) : sinks[s][i] = Format(s, Routed(s)[i])

\* C1 witness: an error, a debug and a warning call were made in that order,
\* and the console got two of them while the file got all three
C1_Witness ==
    /\ Len(calls) = 3
    /\ calls[1].levelno = ERROR
    /\ calls[2].levelno = DEBUG
    /\ calls[3].levelno = WARNING
    /\ Len(sinks["console"]) = 2
    /\ Len(sinks["file"]) = 3
    /\ Len(sinks["json"]) = 2

\* the record is one of the three a timer writes about operation op
IsStart(r, op) == r.levelno = INFO /\ r.msg.text = <<"Starting: ", op>>

IsSuccess(r, op, d) ==
    /\ r.levelno = INFO
    /\ r.msg.text = <<"Completed: ", op, " (", ToString(d), ".00", "s)">>

IsFailure(r, op, d, e) ==
    /\ r.levelno = ERROR
    /\ r.msg.text =
          <<"Failed: ", op, " (", ToString(d), ".00", "s) - ", e.msg>>

IsEnd(r, op) ==
    /\ Len(r.msg.text) >= 2
    /\ r.msg.text[1] \in {"Completed: ", "Failed: "}
    /\ r.msg.text[2] = op

\* the span's two records reached the logger in this order, the second one
\* being the last record handed to it
InCallOrder(first, second) ==
    /\ calls # <<>>
    /\ calls[Len(calls)] = second
    /\ \E i \in 1..(Len(calls) - 1) : calls[i] = first

\* C2: a span around work that completes normally emits exactly two records,
\* an info start record and then an info success record with the elapsed
\* seconds, no error record, and hands no failure to its caller.
C2_SpanSuccess ==
    (ret.op = "timer" /\ ret.how = "normal") =>
        /\ Len(ret.emitted) = 2
        /\ IsStart(ret.emitted[1], ret.name)
        /\ ret.emitted[1].created = now - ret.elapsed
        /\ IsSuccess(ret.emitted[2], ret.name, ret.elapsed)
        /\ \A i \in 1..Len(ret.emitted) : ret.emitted[i].levelno # ERROR
        /\ InCallOrder(ret.emitted[1], ret.emitted[2])
        /\ ret.status = "returned"
        /\ ret.exc = NoExc

\* C2 witness: a span has completed normally after one second
C2_Witness ==
    /\ ret.op = "timer"
    /\ ret.how = "normal"
    /\ ret.elapsed = 1
    /\ Len(calls) >= 3

\* C3: a span around work that raises an Exception emits exactly two records,
\* an info start record and then an error failure record with the elapsed
\* seconds and the failure's text, no success record, and the same failure
\* (kind and message) is raised to the caller.
C3_SpanFailure ==
    (ret.op = "timer" /\ ret.how = "raise" /\ IsException(ret.work)) =>
        /\ Len(ret.emitted) = 2
        /\ IsStart(ret.emitted[1], ret.name)
        /\ IsFailure(ret.emitted[2], ret.name, ret.elapsed, ret.work)
        /\ \A i \in 1..Len(ret.emitted) :
              ~IsSuccess(ret.emitted[i], ret.name, ret.elapsed)
        /\ InCallOrder(ret.emitted[1], ret.emitted[2])
        /\ ret.status = "raised"
        /\ ret.exc = ret.work

\* C3 witness: a span has ended with a RuntimeError raised by its work
C3_Witness ==
    /\ ret.op = "timer"
    /\ ret.how = "raise"
    /\ ret.work = [kind |-> "RuntimeError", msg |-> "boom"]
    /\ ret.status = "raised"

\* the number of records of a sequence that satisfy a test
Count(seq, Test(_)) == Len(SelectSeq(seq, Test))

\* C4: every span that has been left, on whatever way (normal completion,
\* early return, a raised failure, an interrupt or cancellation), has emitted
\* exactly one start record and exactly one end record.
C4_OneStartOneEnd ==
    ret.op = "timer" =>
        /\ Count(ret.emitted, LAMBDA r : IsStart(r, ret.name)) = 1
        /\ Count(ret.emitted, LAMBDA r : IsEnd(r, ret.name)) = 1

----------------------------------------------------------------------------
(* Claims about WorkflowMonitor *)

\* the records the logger was handed since the call began
Since(from) == SubSeq(calls, from + 1, Len(calls))

\* C5: health_check never raises, also when the reachability collaborator
\* throws; it then returns a snapshot whose aws_configured status is
\* 'degraded'.
C5_HealthCheckNeverRaises ==
    (ret.op = "health_check" /\ ret.aws \notin {"exit", "not run"}) =>
        /\ ret.status = "returned"
        /\ ret.value.checks.aws_configured.status = "degraded"

\* C6: a health check that is waiting for the external command always
\* eventually returns.
C6_HealthCheckReturns == (hc.state = "waiting") ~> (hc.state = "idle")

\* C7: when the free-space query fails, health_check still returns a
\* snapshot: disk_space is 'degraded' with the error text as detail, and the
\* other two checks are reported.
C7_DiskFailureDegrades ==
    (ret.op = "health_check" /\ ~ret.disk.ok) =>
        /\ ret.status = "returned"
        /\ ret.value.checks.disk_space.status = "degraded"
        /\ ret.value.checks.disk_space.detail = ret.disk.err
        /\ {"logs_directory", "aws_configured"}
              \subseteq DOMAIN ret.value.checks

\* C8: every returned snapshot has exactly the three checks, each status
\* decided by its own probe alone (disk_space healthy iff free% > 10, else
\* warning; logs_directory healthy iff the directory exists, else warning;
\* aws_configured healthy iff the probe returned true, else degraded), and no
\* overall status field.
C8_SnapshotShape ==
    (ret.op = "health_check" /\ ret.status = "returned") =>
        LET c == ret.value.checks
        IN /\ DOMAIN ret.value = {"timestamp", "workflow_run", "checks"}
           /\ DOMAIN c = {"disk_space", "logs_directory", "aws_configured"}
           /\ c.disk_space.status =
                 (IF ret.disk.free * 100 > 10 * ret.disk.total
                    THEN "healthy" ELSE "warning")
           /\ c.logs_directory.status =
                 (IF ret.exists THEN "healthy" ELSE "warning")
           /\ c.aws_configured.status =
                 (IF ret.aws = "exit" /\ ret.code = 0
                    THEN "healthy" ELSE "degraded")
           /\ \A k \in DOMAIN c :
                 c[k].status \in {"healthy", "warning", "degraded"}

\* C8 witness: a snapshot taken with exactly ten percent free, no logs
\* directory and a failing aws command
C8_Witness ==
    /\ ret.op = "health_check"
    /\ ret.status = "returned"
    /\ ret.disk.free * 10 = ret.disk.total
    /\ ~ret.exists
    /\ ret.aws = "exit"
    /\ ret.code # 0
    /\ ret.value.checks.disk_space.status = "warning"

\* the threshold table and its default, as the claim states them
ClaimedThreshold(name) ==
    CASE name = "ollama_query" -> 60
      [] name = "model_download" -> 300
      [] name = "test_execution" -> 30
      [] name = "s3_upload" -> 60
      [] OTHER -> 120

\* C9: monitor_operation emits a warning carrying the operation name, the
\* duration and the threshold (the table entry of the name, 120 when absent)
\* if and only if duration > threshold; a duration equal to the threshold
\* produces none.
C9_ThresholdWarning ==
    ret.op = "monitor_operation" =>
        LET out == Since(ret.from)
            warns == SelectSeq(out, LAMBDA r : r.levelno = WARNING)
            th == ClaimedThreshold(ret.name)
        IN /\ Len(warns) <= 1
           /\ (Len(warns) = 1) <=> (ret.duration > th * 1000)
           /\ Len(warns) = 1 =>
                 /\ warns[1] = out[Len(out)]
                 /\ warns[1].msg.text =
                       <<"Performance threshold exceeded: ", ret.name>>
                 /\ warns[1].msg.context =
                       [duration |-> ret.duration, threshold |-> th]

\* C9 witness: unknown_op at 50 s did not warn, then model_download at 301 s
\* warned with threshold 300
C9_Witness ==
    /\ ret.op = "monitor_operation"
    /\ ret.name = "model_download"
    /\ ret.duration = 301000
    /\ ret.from = 2
    /\ Len(calls) = 5
    /\ calls[1].msg.text[1] = "METRIC: "
    /\ calls[1].msg.context.metric_name = <<"unknown_op", "_duration">>
    /\ calls[1].msg.context.value = 50000
    /\ calls[5].levelno = WARNING
    /\ calls[5].msg.context.threshold = 300

\* C10: track_error emits one error record carrying the kind, the message
\* and the context; for the kinds ollama_service_down and
\* model_download_failed it emits exactly one more error record, prefixed
\* 'CRITICAL:', after the first; for every other kind, one record in all.
C10_TrackError ==
    ret.op = "track_error" =>
        LET out == Since(ret.from)
        IN /\ Len(out) >= 1
           /\ out[1].levelno = ERROR
           /\ out[1].msg.text[1] # "CRITICAL: "
           /\ out[1].msg.context.error_type = ret.error_type
           /\ out[1].msg.context.error_message = ret.error_message.msg
           /\ out[1].msg.context.context =
                 (IF ret.context.given THEN ret.context.value ELSE NoKw)
           /\ IF ret.error_type
                    \in {"ollama_service_down", "model_download_failed"}
                THEN /\ Len(out) = 2
                     /\ out[2].levelno = ERROR
                     /\ out[2].msg.text[1] = "CRITICAL: "
                ELSE Len(out) = 1

\* C10 witness: a minor_glitch was tracked with one record, then a
\* model_download_failed with two
C10_Witness ==
    /\ ret.op = "track_error"
    /\ ret.error_type = "model_download_failed"
    /\ ret.from = 1
    /\ Len(calls) = 3
    /\ calls[1].msg.text = <<"Error: ", "minor_glitch">>
    /\ calls[1].msg.context.error_type = "minor_glitch"
    /\ calls[3].msg.text[1] = "CRITICAL: "

----------------------------------------------------------------------------
(* the core and its own faults *)

\* the calls of the core other than the exit of a timer span
CoreOps ==
    {"log", "metric", "monitor_operation", "track_error", "health_check",
     "generate_summary"}

\* C11: no call into the core (a log call, metric, monitor_operation,
\* track_error, health_check, generate_summary) ends by raising to its
\* caller; track_error returns for every kind, message and context
C11_CoreNeverRaises ==
    ret.op \in CoreOps => ret.status # "raised"

\* C16: when the write to one sink fails, the log call returns and every
\* other sink whose handler admits the record receives it
C16_PartialFailureFanOut ==
    (ret.op = "log" /\ ret.status = "returned" /\ ret.failed # {}) =>
        \A h \in {handlers[i] : i \in DOMAIN handlers} :
            (h.stream \notin ret.failed /\ Admits(h, calls[ret.from + 1])) =>
                /\ Len(sinks[h.stream]) = ret.before[h.stream] + 1
                /\ sinks[h.stream][Len(sinks[h.stream])] =
                       Format(h.fmt, calls[ret.from + 1])

\* an error call made while the file stream fails: the console and the
\* JSON file received the record, the failing file did not
C16_Witness ==
    /\ ret.op = "log"
    /\ ret.status = "returned"
    /\ ret.failed = {"file"}
    /\ ret.level = ERROR
    /\ Len(sinks["console"]) = ret.before["console"] + 1
    /\ Len(sinks["json"]) = ret.before["json"] + 1
    /\ Len(sinks["file"]) = ret.before["file"]

\* C17: every metric call that returns appends exactly one record to those
\* already produced, at info level, whose context is metric_name, value, unit
\* and tags as passed; the earlier records stay as they were, so n calls leave
\* n records in call order
C17_MetricOneRecord ==
    [][(ret'.op = "metric" /\ ret'.status = "returned"
            /\ ncalls' = ncalls + 1) =>
          /\ Len(calls') = Len(calls) + 1
          /\ SubSeq(calls', 1, Len(calls)) = calls
          /\ calls'[Len(calls')].levelno = INFO
          /\ calls'[Len(calls')].msg.text =
                 <<"METRIC: ">> \o ret'.name \o
                 <<"=", ToString(ret'.value), ret'.unit>>
          /\ calls'[Len(calls')].msg.context =
                 [metric_name |-> ret'.name, value |-> ret'.value,
                  unit |-> ret'.unit, tags |-> ret'.tags]]_vars

\* two metric calls of the same name made one after the other, with the
\* values 0 and 7: two records, each with its own value and tags
C17_Witness ==
    /\ ret.op = "metric"
    /\ ret.status = "returned"
    /\ Len(calls) >= 2
    /\ calls[Len(calls)].msg.text[1] = "METRIC: "
    /\ calls[Len(calls) - 1].msg.text[1] = "METRIC: "
    /\ calls[Len(calls)].msg.context.value = 7
    /\ calls[Len(calls)].msg.context.tags = [env |-> "ci"]
    /\ calls[Len(calls) - 1].msg.context.value = 0

----------------------------------------------------------------------------
(* generate_summary *)

\* generate_summary returned a summary
SummaryReturned == ret.op = "generate_summary" /\ ret.status = "returned"

\* C12: in every summary duration_seconds is not negative and equals
\* end_time minus start_time, also when the wall clock was set back after
\* the monitor started
C12_DurationNonNegative ==
    SummaryReturned =>
        /\ ret.value.duration_seconds >= 0
        /\ ret.value.duration_seconds =
               Ms(ret.value.end_time.iso - ret.value.start_time.iso)

\* the file held a complete summary when the call began
HadSummary == ret.file_before.t = "object"

\* C13: generate_summary creates the directory, embeds the snapshot of one
\* health check, writes the file and then emits one info record naming it; a
\* second call raises nothing and gives a summary with the same start_time
\* and an end_time not earlier than that of the first
C13_SummaryTwice ==
    /\ SummaryReturned =>
          /\ fs.dir
          /\ Load(fs.file) = ret.value
          /\ Len(calls) = ret.from + 2
          /\ calls[ret.from + 1].msg.text = <<"Health check completed">>
          /\ calls[ret.from + 1].msg.context = ret.value.health
          /\ calls[ret.from + 2].msg.text = <<"Summary generated">>
          /\ calls[ret.from + 2].msg.context = [file |-> SummaryFile]
          /\ calls[ret.from + 2].levelno = INFO
    /\ (ret.op = "generate_summary" /\ HadSummary) =>
          /\ ret.status = "returned"
          /\ ret.value.start_time = Load(ret.file_before).start_time
          /\ ret.value.end_time.iso >= Load(ret.file_before).end_time.iso

\* C14: the file generate_summary wrote, read back with json.load, equals
\* the summary it returned: the same seven fields and the same nested health
\* dictionary with its three checks
C14_SummaryRoundTrip ==
    SummaryReturned =>
        /\ fs.file.t = "object"
        /\ Load(fs.file) = ret.value
        /\ DOMAIN Load(fs.file) =
               {"workflow_name", "workflow_run", "commit_sha", "start_time",
                "end_time", "duration_seconds", "health"}
        /\ DOMAIN Load(fs.file).health.checks =
               {"disk_space", "logs_directory", "aws_configured"}

\* a summary taken before start_monitoring (run and commit are None) and one
\* taken after it were each written and read back
C14_Witness ==
    /\ SummaryReturned
    /\ ret.value.workflow_run # None
    /\ HadSummary
    /\ Load(ret.file_before).workflow_run = None
    /\ Load(fs.file).health.checks.aws_configured.configured = FALSE

----------------------------------------------------------------------------
(* the identifiers *)

\* the start_monitoring calls made so far, as the records they left
StartRecords ==
    SelectSeq(calls, LAMBDA r : r.msg.text = <<"Starting workflow monitoring">>)

\* the arguments of the most recent start_monitoring call, None before the
\* first one
LastStart ==
    IF StartRecords = <<>>
      THEN [workflow_run |-> None, commit_sha |-> None]
      ELSE StartRecords[Len(StartRecords)].msg.context

\* C15: the run and commit identifiers in health snapshots, tracked-error
\* records and summaries are None before start_monitoring was called and
\* afterwards are the arguments of the most recent call
C15_Identifiers ==
    /\ (ret.op = "health_check" /\ ret.status = "returned") =>
          ret.value.workflow_run = LastStart.workflow_run
    /\ (ret.op = "track_error" /\ ret.status = "returned") =>
          calls[ret.from + 1].msg.context.workflow_run =
              LastStart.workflow_run
    /\ SummaryReturned =>
          /\ ret.value.workflow_run = LastStart.workflow_run
          /\ ret.value.commit_sha = LastStart.commit_sha
          /\ ret.value.health.workflow_run = LastStart.workflow_run

\* a summary taken after two start_monitoring calls with different
\* arguments reports those of the second
C15_Witness ==
    /\ SummaryReturned
    /\ Len(StartRecords) = 2
    /\ StartRecords[1].msg.context # StartRecords[2].msg.context
    /\ StartRecords[1].msg.context.workflow_run = "999"
    /\ ret.value.workflow_run = "1000"
    /\ ret.value.commit_sha = "def456"

----------------------------------------------------------------------------
(* the command runner *)

\* the process ended in one of the two ways the runner answers for
Answered(o) == o.kind \in {"exit", "FileNotFoundError"}

\* C20: run_aws_command raises neither for a missing executable nor for a
\* non-zero exit but returns (False, diagnostic text); it returns
\* (True, stdout) exactly when the exit code is 0 (the text stripped of
\* surrounding whitespace), and check_aws_configured returns that flag
C20_RunnerNeverRaises ==
    /\ (ret.op = "run_aws_command" /\ Answered(ret.outcome)) =>
          /\ ret.result.status = "returned"
          /\ ret.result.success =
                 (ret.outcome.kind = "exit" /\ ret.outcome.code = 0)
          /\ ret.result.success =>
                 ret.result.output = Strip(ret.outcome.stdout)
          /\ (ret.outcome.kind = "exit" /\ ret.outcome.code # 0) =>
                 ret.result.output = Strip(ret.outcome.stderr)
          /\ ret.outcome.kind = "FileNotFoundError" =>
                 ret.result.output = <<"AWS CLI not installed">>
    /\ (ret.op = "check_aws_configured" /\ Answered(ret.outcome)) =>
          /\ ret.result.status = "returned"
          /\ ret.result.value =
                 (ret.outcome.kind = "exit" /\ ret.outcome.code = 0)

\* a command that wrote to stdout and exited with 1: (False, its stderr)
C20_Witness ==
    /\ ret.op = "run_aws_command"
    /\ ret.outcome.kind = "exit"
    /\ ret.outcome.code = 1
    /\ ret.outcome.stdout = <<"line", "\n">>
    /\ ret.outcome.stderr = <<" ", "a", " ", "b", "\n", "\n">>
    /\ ret.result.success = FALSE
    /\ ret.result.output = <<"a", " ", "b">>

----------------------------------------------------------------------------
(* file handles *)

\* C19: however many times a WorkflowLogger has been constructed in the
\* process, the open file handles held for log sinks are no more than the
\* ones a single run opens
C19_HandlesDoNotGrow ==
    Cardinality(Held) <= Cardinality(FilesOf(LoggerName, 1))

----------------------------------------------------------------------------
(* concurrent log calls *)

\* the lines of sink s that thread t wrote
LinesOf(t, s) == SelectSeq(sinks[s], LAMBDA line : line.message.text[1] = t)

\* the records of thread t that handler h admits, in call order
AdmittedOf(t, h) == SelectSeq(threads[t].hist, LAMBDA r : Admits(h, r))

\* C18: with several threads in the log methods of one WorkflowLogger, at
\* most one write is under way in each sink, and once a thread's call has
\* returned every admitting sink holds that thread's records, all of them
\* and in the thread's call order
C18_SinkWritesExclusive ==
    /\ \A s \in SinkNames : Cardinality(inflight[s]) <= 1
    /\ \A t \in Threads :
          threads[t].pc = "idle" =>
              \A n \in DOMAIN handlers :
                  LinesOf(t, handlers[n].stream) =
                      [k \in 1..Len(AdmittedOf(t, handlers[n])) |->
                          Format(handlers[n].fmt,
                                 AdmittedOf(t, handlers[n])[k])]

\* one thread is writing to the log file while the other has reached the
\* same handler and waits for its lock, after each of them already wrote a
\* line to that file
C18_Witness ==
    /\ threads["t1"].pc = "writing"
    /\ handlers[threads["t1"].i].stream = "file"
    /\ threads["t2"].pc = "handlers"
    /\ handlers[threads["t2"].i].stream = "file"
    /\ Len(LinesOf("t1", "file")) = 1
    /\ Len(LinesOf("t2", "file")) = 1

----------------------------------------------------------------------------
(* the clock of a span *)

\* C21: the elapsed seconds in a span's end record, success or failure, are
\* never negative, whatever happened to the wall clock while the span was
\* open
C21_ElapsedNeverNegative ==
    (ret.op = "timer" /\ Len(ret.emitted) = 2
        /\ IsEnd(ret.emitted[2], ret.name)) =>
        /\ ret.elapsed >= 0
        /\ ~(\E d \in 1..2 :
                \/ IsSuccess(ret.emitted[2], ret.name, -d)
                \/ IsFailure(ret.emitted[2], ret.name, -d, ret.work))

----------------------------------------------------------------------------
(* the sink set of a shared logger *)

\* the most recent construction under a name
Latest(name) ==
    CHOOSE r \in InstancesOf(name) : \A q \in InstancesOf(name) : q <= r

\* C22: after any sequence of constructions the logger of every name that
\* was constructed holds exactly three handlers (console, file, JSON), all
\* of the latest construction under that name; a record logged through an
\* earlier instance of the name is delivered to those handlers only
C22_ThreeSinksPerName ==
    /\ \A name \in LoggerNames :
          IF InstancesOf(name) = {}
            THEN registry[name] = <<>>
            ELSE /\ Len(registry[name]) = 3
                 /\ [i \in 1..3 |-> registry[name][i].stream] =
                        <<"console", "file", "json">>
                 /\ \A i \in 1..3 : registry[name][i].run = Latest(name)
    /\ ret.op = "instance_log" =>
          /\ \A i \in DOMAIN ret.delivered :
                ret.delivered[i].run = Latest(ret.name)
          /\ ret.level = ERROR => Len(ret.delivered) = 3

\* an error logged through the first instance after a second one was
\* constructed under the same name: three deliveries, none to the first
\* instance's handlers
C22_Witness ==
    /\ ret.op = "instance_log"
    /\ ret.name = LoggerName
    /\ ret.instance = 1
    /\ ret.level = ERROR
    /\ Latest(LoggerName) > 1
    /\ Len(ret.delivered) = 3
    /\ \A i \in 1..3 : ret.delivered[i].run # 1

----------------------------------------------------------------------------
(* the run's start time *)

\* C23: start_time is the clock reading taken at construction and no
\* operation of the monitor changes it; start_monitoring changes
\* workflow_run and commit_sha and no other attribute of the monitor; every
\* summary reports that start time and the duration from it
C23_StartTimeFixed ==
    [][/\ start_time' = start_time
       /\ (workflow_run' # workflow_run \/ commit_sha' # commit_sha) =>
             /\ ret'.op = "start_monitoring"
             /\ UNCHANGED <<handlers, start_time, spans, hc, fs, registry,
                            open_handles>>
       /\ (ret'.op = "generate_summary" /\ ret'.status = "returned") =>
             /\ ret'.value.start_time = IsoFormat(start_time)
             /\ ret'.value.duration_seconds =
                    Ms(ret'.value.end_time.iso - start_time)]_vars

\* a summary taken two seconds after construction and one second after
\* start_monitoring: it starts at construction and lasts two seconds
C23_Witness ==
    /\ SummaryReturned
    /\ Len(StartRecords) = 1
    /\ StartRecords[1].created = 1
    /\ ret.value.workflow_run # None
    /\ ret.value.start_time = IsoFormat(0)
    /\ ret.value.end_time = IsoFormat(2)
    /\ ret.value.duration_seconds = Ms(2)

====
